---- MODULE Spec2Model ----
(***************************************************************************)
(* A model of the scout-go telemetry core: the lifecycle state machine     *)
(* (StartWithContext / Stop / shutdown / supervisor goroutine), the        *)
(* recording path (validateRequest, StartTraceWithTimestamp, EndTrace),    *)
(* the injectable logger and the per-span-kind sampler.                    *)
(***************************************************************************)
EXTENDS Integers, Sequences, FiniteSets, TLC

\* ------------------------------------------------------------------------
\* Bounds of the model
\* ------------------------------------------------------------------------
\* number of host goroutines calling the public API
NumCallers == 2
\* total number of Start / Stop / recording calls made in one run
MaxCalls == 2

Callers == 1..NumCallers
\* one supervisor goroutine can be launched per start call
Supers == (NumCallers + 1)..(NumCallers + MaxCalls)
Threads == Callers \cup Supers

\* context.Background() and one cancellable context
Contexts == {"background", "ctx1"}

\* ------------------------------------------------------------------------
\* Program constants and pure helpers
\* ------------------------------------------------------------------------
\* "https://otel.getscout.us:4318", host part abbreviated to one letter
OTLPDefaultEndpoint == <<"h", "t", "t", "p", "s", ":", "/", "/", "o">>
PlainEndpoint == <<"h", "t", "t", "p", ":", "/", "/", "o">>
BadEndpoint == <<"o">>
Endpoints == {OTLPDefaultEndpoint, PlainEndpoint, BadEndpoint}

\* strings.HasPrefix
HasPrefix(s, p) == Len(s) >= Len(p) /\ SubSeq(s, 1, Len(p)) = p

\* the scheme test of StartOTLP
ValidEndpoint(e) ==
    \/ HasPrefix(e, <<"h", "t", "t", "p", ":", "/", "/">>)
    \/ HasPrefix(e, <<"h", "t", "t", "p", "s", ":", "/", "/">>)

\* span kinds of go.opentelemetry.io/otel/trace
SpanKindUnspecified == "unspecified"
SpanKinds == {SpanKindUnspecified, "server", "client"}

\* a nil / empty Go map
EmptyMap == [k \in {} |-> 0]

\* a rate in [0, 1] is a numerator over RateDen; RateDen is not a divisor
\* of Half, as a float64 rate can have binary digits below 2^-63
RateDen == 8
Rates == 0..RateDen

\* the functional options
Options ==
    { [opt |-> "WithProjectID", val |-> "p"] }

\* width of the low half of a trace identity (64 in the program) and the
\* value 1 << 63 at that width
IDBits == 3
Half == 2 ^ (IDBits - 1)

\* uint64(value * (1 << 63)) wrapping at 63 bits, so that rate 1.0 gives 0
ToBound_Wrap(num) == ((num * Half) \div RateDen) % Half

\* uint64(value * (1 << 63)) for a rate value = num / RateDen in [0, 1]:
\* the float-to-integer conversion truncates toward zero
ToBound(num) == (num * Half) \div RateDen

\* getSampler: one upper bound per entry of conf.samplingRateMap; the
\* description prints the rate map
getSampler(c) ==
    [description |-> c.samplingRateMap,
     traceIDUpperBounds |->
         [k \in DOMAIN c.samplingRateMap |-> ToBound(c.samplingRateMap[k])]]

\* the maps WithSamplingRateMap can be given: any set of kinds, any rates
RateMaps == UNION {[S -> Rates] : S \in SUBSET SpanKinds}

\* trace identities: <<high half, low half>> of the 128 bits
TraceIDs == {<<hi, lo>> : hi \in 0..1, lo \in 0..(2 ^ IDBits - 1)}

\* sampler.ShouldSample with the test of ok left out: a kind without an
\* entry gets the zero value of the map
ShouldSample_NoFallback(s, p) ==
    LET x == p.TraceID[2] \div 2
        bound == IF p.Kind \in DOMAIN s.traceIDUpperBounds
                 THEN s.traceIDUpperBounds[p.Kind]
                 ELSE 0
    IN  IF x < bound THEN "RecordAndSample" ELSE "Drop"

\* sampler.ShouldSample: x is the low half of the identity shifted right
\* by one; the bound is the entry of the kind, else the entry of the
\* unspecified kind, else the zero value of a Go map lookup
ShouldSample(s, p) ==
    LET x == p.TraceID[2] \div 2
        bound == IF p.Kind \in DOMAIN s.traceIDUpperBounds
                 THEN s.traceIDUpperBounds[p.Kind]
                 ELSE IF SpanKindUnspecified \in DOMAIN s.traceIDUpperBounds
                      THEN s.traceIDUpperBounds[SpanKindUnspecified]
                      ELSE 0
    IN  IF x < bound THEN "RecordAndSample" ELSE "Drop"

\* option.apply
Apply(c, o) ==
    CASE o.opt = "WithProjectID" -> [c EXCEPT !.projectID = o.val]
      [] o.opt = "WithMetricSamplingRate" ->
             [c EXCEPT !.metricSamplingRate = o.val]
      [] o.opt = "WithSamplingRate" ->
             [c EXCEPT !.samplingRateMap =
                  [k \in {SpanKindUnspecified} |-> o.val]]
      [] o.opt = "WithSamplingRateMap" ->
             [c EXCEPT !.samplingRateMap = o.val]
      [] OTHER ->
             [c EXCEPT !.resourceAttributes = Append(@, o.val)]

RECURSIVE ApplyAll(_, _)
\* the loop over opts at the head of StartWithContext
ApplyAll(c, opts) ==
    IF opts = <<>> THEN c
    ELSE ApplyAll(Apply(c, Head(opts)), Tail(opts))

\* the option lists a start call is given
OptLists == {<<>>} \cup {<<o>> : o \in Options}

\* ------------------------------------------------------------------------
\* The correlation codec: requestId -> trace identity
\* ------------------------------------------------------------------------
\* length of a trace identity in bytes (16 in the program)
IDLen == 2
\* longest requestId, in characters
MaxReqLen == 4

\* the base64 alphabet, abbreviated to two digits of one bit each, and a
\* character outside the alphabet
B64Digits == {"A", "B"}
ReqChars == B64Digits \cup {"!"}

\* the value of a base64 digit
DigitVal(ch) == IF ch = "A" THEN 0 ELSE 1

\* the all-zero trace identity, which is not valid
ZeroID == [i \in 1..IDLen |-> 0]

\* TraceID.IsValid
IsValidID(id) == id # ZeroID

RECURSIVE DecodeString(_)
\* base64.StdEncoding.DecodeString: a quantum of two digits makes one byte;
\* at a character outside the alphabet or an incomplete quantum it returns
\* the bytes decoded so far together with an error
DecodeString(s) ==
    IF s = <<>> THEN [data |-> <<>>, err |-> FALSE]
    ELSE IF Len(s) < 2 \/ s[1] \notin B64Digits \/ s[2] \notin B64Digits
         THEN [data |-> <<>>, err |-> TRUE]
         ELSE LET r == DecodeString(SubSeq(s, 3, Len(s)))
              IN  [data |-> <<2 * DigitVal(s[1]) + DigitVal(s[2])>> \o r.data,
                   err |-> r.err]

RECURSIVE HexOf(_)
\* the verb %x on a byte slice: two digits per byte, most significant first
HexOf(data) ==
    IF data = <<>> THEN <<>>
    ELSE <<Head(data) \div 2, Head(data) % 2>> \o HexOf(Tail(data))

RECURSIVE PadLeft(_, _)
\* the flag 0 and the width of the verb %032x: zeros on the left up to the
\* width, nothing cut off
PadLeft(h, width) == IF Len(h) >= width THEN h ELSE PadLeft(<<0>> \o h, width)

\* fmt.Sprintf("%032x", data)
Sprintf032x(data) == PadLeft(HexOf(data), 2 * IDLen)

\* trace.TraceIDFromHex: the string must have twice IDLen digits and must
\* not be all zero; on an error the zero identity is returned
TraceIDFromHex(h) ==
    IF Len(h) # 2 * IDLen THEN ZeroID
    ELSE [i \in 1..IDLen |-> 2 * h[2 * i - 1] + h[2 * i]]

\* the three lines of StartTraceWithTimestamp that make the trace identity
\* from requestID; the errors of DecodeString and TraceIDFromHex are dropped
deriveTraceID(req) == TraceIDFromHex(Sprintf032x(DecodeString(req).data))

\* tracer.Start under a span context with the trace identity tid: the span
\* joins that trace when tid is valid, else a new identity is generated
tracerStart(tid) ==
    IF IsValidID(tid) THEN [TraceID |-> tid, generated |-> FALSE]
    ELSE [TraceID |-> ZeroID, generated |-> TRUE]

\* the requestIds a context can carry; <<>> is no requestId
RequestIDs == UNION {[1..n -> ReqChars] : n \in 0..MaxReqLen}

\* the trace identity of the span a context carries: none, or a valid one
ParentIDs == {ZeroID, [i \in 1..IDLen |-> 1]}

\* a context with neither a requestId nor a span
EmptyCtx == [requestID |-> <<>>, parent |-> ZeroID]

\* the contexts given to recording calls
ReqCtxs == [requestID : RequestIDs, parent : ParentIDs]

\* ------------------------------------------------------------------------
\* The correlation header "<sessionSecureId>/<requestId>"
\* ------------------------------------------------------------------------
\* longest header value, in characters
MaxTokLen == 4

\* the characters of a header value
TokChars == {"a", "b", "/"}

\* the header values; <<>> is the empty string, which r.Header.Get also
\* returns for a request without the header
Tokens == UNION {[1..n -> TokChars] : n \in 0..MaxTokLen}

\* the positions of the separator in s
Slashes(s) == {i \in 1..Len(s) : s[i] = "/"}

\* strings.SplitN(s, "/", 2): the second segment is the rest of s
Split_N2(s) ==
    IF Slashes(s) = {} THEN <<s>>
    ELSE LET i == CHOOSE j \in Slashes(s) : \A k \in Slashes(s) : j <= k
         IN  <<SubSeq(s, 1, i - 1), SubSeq(s, i + 1, Len(s))>>

RECURSIVE Split(_)
\* strings.Split(s, "/"): the segments between the separators, one more
\* than there are separators; the empty string gives one empty segment
Split(s) ==
    IF Slashes(s) = {} THEN <<s>>
    ELSE LET i == CHOOSE j \in Slashes(s) : \A k \in Slashes(s) : j <= k
         IN  <<SubSeq(s, 1, i - 1)>> \o Split(SubSeq(s, i + 1, Len(s)))

\* ExtractIdsFromRequest
ExtractIdsFromRequest(requestDetails) ==
    LET ids == Split(requestDetails)
    IN  IF Len(ids) >= 2
        THEN [sessionSecureId |-> ids[1], requestId |-> ids[2], err |-> FALSE]
        ELSE [sessionSecureId |-> <<>>, requestId |-> <<>>, err |-> TRUE]

\* a context as far as the two keys of ContextKeys go: <<>> when the key
\* has no value, else <<value>>
PlainCtx == [SessionSecureID |-> <<>>, RequestID |-> <<>>]
InCtxs ==
    {PlainCtx, [SessionSecureID |-> << <<"a">> >>, RequestID |-> << <<"b">> >>]}

\* InterceptRequestWithContext; header is r.Header.Get("X-Scout-Request")
InterceptRequestWithContext(ctx, header) ==
    LET ids == Split(header)
    IN  IF Len(ids) < 2 THEN ctx
        ELSE [ctx EXCEPT !.SessionSecureID = <<ids[1]>>,
                         !.RequestID = <<ids[2]>>]

\* the requests a middleware sees
Requests == [header : Tokens, ctx : InCtxs]

\* no request has come in
NoRequest == [header |-> <<>>, ctx |-> PlainCtx]

\* ------------------------------------------------------------------------
\* State
\* ------------------------------------------------------------------------
VARIABLES
    state,          \* appState: "idle", "started", "stopped"
    conf,           \* the package-level *config
    logger,         \* the injected Logger: "deadLog" or "hook"
    otlp,           \* the *OTLP handle: 0 is nil, else an index into pipes
    pipes,          \* the tracer providers constructed so far
    stateMutex,     \* holder of the write lock of the RWMutex, 0 when free
    interruptChan,  \* number of tokens buffered in interruptChan (cap 1)
    signalChan,     \* number of signals buffered in signalChan (cap 1)
    cancelled,      \* the contexts whose Done channel is closed
    pc,             \* position of every goroutine
    ret,            \* where a goroutine continues after a nested recording
    ctxOf,          \* the ctx argument of a start call / of a supervisor
    verr,           \* the err result of the goroutine's validateRequest
    nCalls,         \* calls begun so far
    nStarts,        \* start calls that got past the state check
    nStops,         \* shutdowns that set state to stopped
    startupFailed,  \* some start hit a configuration/startup error
    noopStart,      \* some start returned at the state check
    sampler,        \* the sampler under test: <<>>, or <<the sampler>>
    sampled,        \* the last call of ShouldSample: <<>>, or <<call>>
    metric,         \* the last call of a metric wrapper: <<>>, or <<call>>
    reqCtx,         \* the context the host gives to its recording calls
    requestID,      \* the requestID result of the goroutine's validateRequest
    span,           \* the span the goroutine has started: <<>>, or <<span>>
    request,        \* an incoming request: its header and its context
    extracted,      \* the result of ExtractIdsFromRequest: <<>>, or <<r>>
    intercepted     \* the result of InterceptRequestWithContext, likewise

vars == <<state, conf, logger, otlp, pipes, stateMutex, interruptChan,
          signalChan, cancelled, pc, ret, ctxOf, verr,
          nCalls, nStarts, nStops, startupFailed, noopStart, sampler, sampled,
          metric, reqCtx, requestID, span, request, extracted, intercepted>>

\* the variables of the parsers of the correlation header
parseVars == <<request, extracted, intercepted>>

\* the variables of the recording wrappers, which the lifecycle leaves alone
recVars == <<metric, reqCtx, requestID, span, parseVars>>


\* capacity of interruptChan and of signalChan: make(chan ..., 1)
ChanCap == 1

\* IsRunning
IsRunning == state = "started"

\* where a goroutine goes when its outermost function returns
Done(t) == IF t \in Callers THEN "ready" ELSE "exited"

\* conf after init(): conf = &config{}, then SetOtelEndpoint
InitConf ==
    [otelEndpoint |-> OTLPDefaultEndpoint,
     projectID |-> "",
     resourceAttributes |-> <<>>,
     metricSamplingRate |-> 0,
     samplingRateMap |-> EmptyMap]

\* the package-level state after init(), but for conf
InitState ==
    /\ state = "idle"
    /\ logger = "deadLog"
    /\ otlp = 0
    /\ pipes = <<>>
    /\ stateMutex = 0
    /\ interruptChan = 0
    /\ signalChan = 0
    /\ cancelled = {}
    /\ pc = [t \in Threads |-> IF t \in Callers THEN "ready" ELSE "unborn"]
    /\ ret = [t \in Threads |-> "none"]
    /\ ctxOf = [t \in Threads |-> "background"]
    /\ verr = [t \in Threads |-> FALSE]
    /\ nCalls = 0
    /\ nStarts = 0
    /\ nStops = 0
    /\ startupFailed = FALSE
    /\ noopStart = FALSE
    /\ sampler = <<>>
    /\ sampled = <<>>
    /\ metric = <<>>
    /\ requestID = [t \in Threads |-> <<>>]
    /\ span = [t \in Threads |-> <<>>]
    /\ extracted = <<>>
    /\ intercepted = <<>>

\* the package-level state after init(); the contexts of the host carry
\* neither a requestId nor a span
Init ==
    /\ conf = InitConf
    /\ InitState
    /\ reqCtx = EmptyCtx
    /\ request = NoRequest

\* ------------------------------------------------------------------------
\* The injected logger
\* ------------------------------------------------------------------------
\* logger.Error / logger.Errorf called by goroutine t, which continues at
\* next: deadLog returns at once; a logrus logger carrying the scout hook
\* runs Hook.Fire, which calls StartTraceWithTimestamp and EndTrace before
\* the log call returns
Log(t, msg, next) ==
    /\ IF logger = "deadLog"
       THEN /\ pc' = [pc EXCEPT ![t] = next]
            /\ ret' = ret
       ELSE /\ pc' = [pc EXCEPT ![t] = "validate"]
            /\ ret' = [ret EXCEPT ![t] = next]

\* goroutine t continues at next without logging
Goto(t, next) ==
    /\ pc' = [pc EXCEPT ![t] = next]
    /\ UNCHANGED ret

\* SetDebugMode, called by the host before its first call
SetDebugMode(l) ==
    /\ nCalls = 0
    /\ logger # l
    /\ logger' = l
    /\ UNCHANGED <<state, conf, otlp, pipes, stateMutex, interruptChan,
                   signalChan, cancelled, pc, ret, ctxOf, verr, nCalls,
                   nStarts, nStops, startupFailed, noopStart, sampler,
                   sampled,
                   recVars>>

\* SetOtelEndpoint, called by the host before its first call
SetOtelEndpoint(e) ==
    /\ nCalls = 0
    /\ conf.otelEndpoint # e
    /\ conf' = [conf EXCEPT !.otelEndpoint = e]
    /\ UNCHANGED <<state, logger, otlp, pipes, stateMutex, interruptChan,
                   signalChan, cancelled, pc, ret, ctxOf, verr, nCalls,
                   nStarts, nStops, startupFailed, noopStart, sampler,
                   sampled,
                   recVars>>

\* ------------------------------------------------------------------------
\* StartWithContext (Init and Start call it with context.Background())
\* ------------------------------------------------------------------------
\* entry: the options are applied to conf before the lock is taken
StartWithContext(c, ctx, opts) ==
    /\ pc[c] = "ready"
    /\ nCalls < MaxCalls
    /\ conf' = ApplyAll(conf, opts)
    /\ ctxOf' = [ctxOf EXCEPT ![c] = ctx]
    /\ nCalls' = nCalls + 1
    /\ Goto(c, "start_lock")
    /\ UNCHANGED <<state, logger, otlp, pipes, stateMutex, interruptChan,
                   signalChan, cancelled, verr, nStarts, nStops,
                   startupFailed, noopStart, sampler, sampled,
                   recVars>>

\* StartLock without the test of state == started
StartLock_NoCheck(c) ==
    /\ pc[c] = "start_lock"
    /\ stateMutex = 0
    /\ stateMutex' = c
    /\ nStarts' = nStarts + 1
    /\ Goto(c, "otlp_prefix")
    /\ UNCHANGED <<state, conf, logger, otlp, pipes, interruptChan,
                   signalChan, cancelled, ctxOf, verr, nCalls, nStops,
                   startupFailed, noopStart, sampler, sampled,
                   recVars>>

\* stateMutex.Lock(); if state == started { return }
StartLock(c) ==
    /\ pc[c] = "start_lock"
    /\ stateMutex = 0
    /\ IF state = "started"
       THEN /\ noopStart' = TRUE
            /\ Goto(c, "ready")
            /\ UNCHANGED <<stateMutex, nStarts,
                   recVars>>
       ELSE /\ stateMutex' = c
            /\ nStarts' = nStarts + 1
            /\ Goto(c, "otlp_prefix")
            /\ UNCHANGED noopStart
    /\ UNCHANGED <<state, conf, logger, otlp, pipes, interruptChan,
                   signalChan, cancelled, ctxOf, verr, nCalls, nStops,
                   startupFailed, sampler, sampled,
                   recVars>>

\* StartOTLP, the scheme test: an endpoint with neither scheme is logged
\* and construction goes on
StartOTLPScheme(c) ==
    /\ pc[c] = "otlp_prefix"
    /\ IF ValidEndpoint(conf.otelEndpoint)
       THEN /\ Goto(c, "otlp_new")
            /\ UNCHANGED startupFailed
       ELSE /\ Log(c, "invalid otlp endpoint", "otlp_new")
            /\ startupFailed' = TRUE
    /\ UNCHANGED <<state, conf, logger, otlp, pipes, stateMutex,
                   interruptChan, signalChan, cancelled, ctxOf, verr, nCalls,
                   nStarts, nStops, noopStart, sampler, sampled,
                   recVars>>

\* StartOTLP, the construction: the exporter or the resource may fail, and
\* then otlp is nil and StartWithContext logs the error; else a tracer
\* provider with the sampler of getSampler is built and registered
StartOTLPBuild(c) ==
    /\ pc[c] = "otlp_new"
    /\ \E outcome \in {"ok", "exporter error", "resource error"} :
         IF outcome = "ok"
         THEN /\ pipes' = Append(pipes, [flushes |-> 0, releases |-> 0,
                                         sampler |-> getSampler(conf)])
              /\ otlp' = Len(pipes) + 1
              /\ Goto(c, "start_finish")
              /\ UNCHANGED startupFailed
         ELSE /\ otlp' = 0
              /\ pipes' = pipes
              /\ Log(c, "failed to start opentelemetry exporter",
                     "start_finish")
              /\ startupFailed' = TRUE
    /\ UNCHANGED <<state, conf, logger, stateMutex, interruptChan, signalChan,
                   cancelled, ctxOf, verr, nCalls, nStarts, nStops, noopStart,
                   sampler, sampled,
                   recVars>>

\* state = started; go func() {...}(); the deferred Unlock
StartFinish(c) ==
    /\ pc[c] = "start_finish"
    /\ state' = "started"
    /\ stateMutex' = 0
    /\ pc' = [pc EXCEPT ![c] = "ready", ![NumCallers + nStarts] = "select"]
    /\ ctxOf' = [ctxOf EXCEPT ![NumCallers + nStarts] = ctxOf[c]]
    /\ UNCHANGED <<conf, logger, otlp, pipes, interruptChan, signalChan,
                   cancelled, ret, verr, nCalls, nStarts, nStops,
                   startupFailed, noopStart, sampler, sampled,
                   recVars>>

\* ------------------------------------------------------------------------
\* Stop and shutdown
\* ------------------------------------------------------------------------
\* entry of Stop
Stop(c) ==
    /\ pc[c] = "ready"
    /\ nCalls < MaxCalls
    /\ nCalls' = nCalls + 1
    /\ Goto(c, "stop_send")
    /\ UNCHANGED <<state, conf, logger, otlp, pipes, stateMutex,
                   interruptChan, signalChan, cancelled, ctxOf, verr, nStarts,
                   nStops, startupFailed, noopStart, sampler, sampled,
                   recVars>>

\* interruptChan <- true: blocks while the buffer of the channel is full
StopSend(c) ==
    /\ pc[c] = "stop_send"
    /\ interruptChan < ChanCap
    /\ interruptChan' = interruptChan + 1
    /\ Goto(c, "sh_enter")
    /\ UNCHANGED <<state, conf, logger, otlp, pipes, stateMutex, signalChan,
                   cancelled, ctxOf, verr, nCalls, nStarts, nStops,
                   startupFailed, noopStart, sampler, sampled,
                   recVars>>

\* shutdown without the test of !IsRunning()
shutdown_NoCheck(t) ==
    /\ pc[t] = "sh_enter"
    /\ stateMutex = 0
    /\ stateMutex' = t
    /\ Goto(t, IF otlp # 0 THEN "sh_flush" ELSE "sh_stop")
    /\ UNCHANGED <<state, conf, logger, otlp, pipes, interruptChan,
                   signalChan, cancelled, ctxOf, verr, nCalls, nStarts,
                   nStops, startupFailed, noopStart, sampler, sampled,
                   recVars>>

\* shutdown: stateMutex.Lock(); if !IsRunning() { return };
\* if otlp != nil { otlp.shutdown() }
shutdown(t) ==
    /\ pc[t] = "sh_enter"
    /\ stateMutex = 0
    /\ IF ~IsRunning
       THEN /\ Goto(t, Done(t))
            /\ UNCHANGED stateMutex
       ELSE /\ stateMutex' = t
            /\ Goto(t, IF otlp # 0 THEN "sh_flush" ELSE "sh_stop")
    /\ UNCHANGED <<state, conf, logger, otlp, pipes, interruptChan,
                   signalChan, cancelled, ctxOf, verr, nCalls, nStarts,
                   nStops, startupFailed, noopStart, sampler, sampled,
                   recVars>>

\* OTLP.shutdown, first half: ForceFlush, its error logged
ForceFlush(t) ==
    /\ pc[t] = "sh_flush"
    /\ pipes' = [pipes EXCEPT ![otlp].flushes = @ + 1]
    /\ \E failed \in BOOLEAN :
         IF failed
         THEN Log(t, "flush error", "sh_release")
         ELSE Goto(t, "sh_release")
    /\ UNCHANGED <<state, conf, logger, otlp, stateMutex, interruptChan,
                   signalChan, cancelled, ctxOf, verr, nCalls, nStarts,
                   nStops, startupFailed, noopStart, sampler, sampled,
                   recVars>>

\* OTLP.shutdown, second half: tracerProvider.Shutdown, its error logged
Release(t) ==
    /\ pc[t] = "sh_release"
    /\ pipes' = [pipes EXCEPT ![otlp].releases = @ + 1]
    /\ \E failed \in BOOLEAN :
         IF failed
         THEN Log(t, "release error", "sh_stop")
         ELSE Goto(t, "sh_stop")
    /\ UNCHANGED <<state, conf, logger, otlp, stateMutex, interruptChan,
                   signalChan, cancelled, ctxOf, verr, nCalls, nStarts,
                   nStops, startupFailed, noopStart, sampler, sampled,
                   recVars>>

\* SetStopped writing idle instead of stopped
SetStopped_Idle(t) ==
    /\ pc[t] = "sh_stop"
    /\ state' = "idle"
    /\ stateMutex' = 0
    /\ nStops' = nStops + 1
    /\ Goto(t, Done(t))
    /\ UNCHANGED <<conf, logger, otlp, pipes, interruptChan, signalChan,
                   cancelled, ctxOf, verr, nCalls, nStarts, startupFailed,
                   noopStart, sampler, sampled,
                   recVars>>

\* state = stopped and the deferred Unlock
SetStopped(t) ==
    /\ pc[t] = "sh_stop"
    /\ state' = "stopped"
    /\ stateMutex' = 0
    /\ nStops' = nStops + 1
    /\ Goto(t, Done(t))
    /\ UNCHANGED <<conf, logger, otlp, pipes, interruptChan, signalChan,
                   cancelled, ctxOf, verr, nCalls, nStarts, startupFailed,
                   noopStart, sampler, sampled,
                   recVars>>

\* ------------------------------------------------------------------------
\* The supervisor goroutine launched by StartWithContext
\* ------------------------------------------------------------------------
\* case <-interruptChan: return
SupervisorInterrupt(s) ==
    /\ pc[s] = "select"
    /\ interruptChan > 0
    /\ interruptChan' = interruptChan - 1
    /\ Goto(s, "exited")
    /\ UNCHANGED <<state, conf, logger, otlp, pipes, stateMutex, signalChan,
                   cancelled, ctxOf, verr, nCalls, nStarts, nStops,
                   startupFailed, noopStart, sampler, sampled,
                   recVars>>

\* case <-signalChan: shutdown(); return
SupervisorSignal(s) ==
    /\ pc[s] = "select"
    /\ signalChan > 0
    /\ signalChan' = signalChan - 1
    /\ Goto(s, "sh_enter")
    /\ UNCHANGED <<state, conf, logger, otlp, pipes, stateMutex,
                   interruptChan, cancelled, ctxOf, verr, nCalls, nStarts,
                   nStops, startupFailed, noopStart, sampler, sampled,
                   recVars>>

\* case <-ctx.Done(): shutdown(); return
SupervisorCtxDone(s) ==
    /\ pc[s] = "select"
    /\ ctxOf[s] \in cancelled
    /\ Goto(s, "sh_enter")
    /\ UNCHANGED <<state, conf, logger, otlp, pipes, stateMutex,
                   interruptChan, signalChan, cancelled, ctxOf, verr, nCalls,
                   nStarts, nStops, startupFailed, noopStart, sampler,
                   sampled,
                   recVars>>

\* ------------------------------------------------------------------------
\* The environment: OS signals and context cancellation
\* ------------------------------------------------------------------------
\* SIGINT / SIGTERM / SIGABRT relayed by signal.Notify, which does not
\* block: the signal is dropped when the buffer of signalChan is full
Signal ==
    /\ signalChan < ChanCap
    /\ signalChan' = signalChan + 1
    /\ UNCHANGED <<state, conf, logger, otlp, pipes, stateMutex,
                   interruptChan, cancelled, pc, ret, ctxOf, verr, nCalls,
                   nStarts, nStops, startupFailed, noopStart, sampler,
                   sampled,
                   recVars>>

\* the host calls the CancelFunc of a cancellable context
Cancel(ctx) ==
    /\ ctx # "background"
    /\ ctx \notin cancelled
    /\ cancelled' = cancelled \cup {ctx}
    /\ UNCHANGED <<state, conf, logger, otlp, pipes, stateMutex,
                   interruptChan, signalChan, pc, ret, ctxOf, verr, nCalls,
                   nStarts, nStops, startupFailed, noopStart, sampler,
                   sampled,
                   recVars>>

\* ------------------------------------------------------------------------
\* The recording path
\* ------------------------------------------------------------------------
\* entry of RecordMetric / RecordError / StartTrace
Record(c) ==
    /\ pc[c] = "ready"
    /\ nCalls < MaxCalls
    /\ nCalls' = nCalls + 1
    /\ pc' = [pc EXCEPT ![c] = "validate"]
    /\ ret' = [ret EXCEPT ![c] = "ready"]
    /\ UNCHANGED <<state, conf, logger, otlp, pipes, stateMutex,
                   interruptChan, signalChan, cancelled, ctxOf, verr, nStarts,
                   nStops, startupFailed, noopStart, sampler, sampled,
                   recVars>>

\* validateRequest: RLock; when state == stopped err is set and the ids
\* stay empty, else requestID is the value the context carries; RUnlock
validateRequest(t) ==
    /\ pc[t] = "validate"
    /\ stateMutex = 0
    /\ verr' = [verr EXCEPT ![t] = (state = "stopped")]
    /\ requestID' = [requestID EXCEPT ![t] = IF state = "stopped" THEN <<>>
                                             ELSE reqCtx.requestID]
    /\ Goto(t, "tracer_start")
    /\ UNCHANGED <<state, conf, logger, otlp, pipes, stateMutex,
                   interruptChan, signalChan, cancelled, ctxOf, nCalls,
                   nStarts, nStops, startupFailed, noopStart, sampler,
                   sampled, metric, reqCtx, span, parseVars>>

\* StartTraceWithTimestamp after validateRequest: its err is discarded;
\* when requestID is not empty the trace identity of the span context is
\* replaced by the one made from requestID; tracer.Start is called and the
\* span gets conf.projectID
StartTraceWithTimestamp(t) ==
    /\ pc[t] = "tracer_start"
    /\ pc' = [pc EXCEPT ![t] = "end_trace"]
    /\ span' = [span EXCEPT ![t] =
                   <<tracerStart(IF requestID[t] # <<>>
                                 THEN deriveTraceID(requestID[t])
                                 ELSE reqCtx.parent)>>]
    /\ UNCHANGED <<state, conf, logger, otlp, pipes, stateMutex,
                   interruptChan, signalChan, cancelled, ret, ctxOf, verr,
                   nCalls, nStarts, nStops, startupFailed, noopStart, sampler,
                   sampled, metric, reqCtx, requestID,
                   parseVars>>

\* EndTrace: span.End, then the caller of the recording call goes on
EndTrace(t) ==
    /\ pc[t] = "end_trace"
    /\ pc' = [pc EXCEPT ![t] = ret[t]]
    /\ ret' = [ret EXCEPT ![t] = "none"]
    /\ verr' = [verr EXCEPT ![t] = FALSE]
    /\ requestID' = [requestID EXCEPT ![t] = <<>>]
    /\ span' = [span EXCEPT ![t] = <<>>]
    /\ UNCHANGED <<state, conf, logger, otlp, pipes, stateMutex,
                   interruptChan, signalChan, cancelled, ctxOf, nCalls,
                   nStarts, nStops, startupFailed, noopStart, sampler,
                   sampled, metric, reqCtx, parseVars>>

\* ------------------------------------------------------------------------
\* Specifications
\* ------------------------------------------------------------------------
\* one step of goroutine t
Step(t) ==
    \/ StartLock(t)
    \/ StartOTLPScheme(t)
    \/ StartOTLPBuild(t)
    \/ StartFinish(t)
    \/ StopSend(t)
    \/ shutdown(t)
    \/ ForceFlush(t)
    \/ Release(t)
    \/ SetStopped(t)
    \/ SupervisorInterrupt(t)
    \/ SupervisorSignal(t)
    \/ SupervisorCtxDone(t)
    \/ validateRequest(t)
    \/ StartTraceWithTimestamp(t)
    \/ EndTrace(t)

\* a call made by the host, or an event of the environment
Env ==
    \/ \E l \in {"deadLog", "hook"} : SetDebugMode(l)
    \/ \E e \in Endpoints : SetOtelEndpoint(e)
    \/ \E c \in Callers, ctx \in Contexts, opts \in OptLists :
           StartWithContext(c, ctx, opts)
    \/ \E c \in Callers : Stop(c)
    \/ \E c \in Callers : Record(c)
    \/ Signal
    \/ \E ctx \in Contexts : Cancel(ctx)

Next == Env \/ \E t \in Threads : Step(t)

Spec == Init /\ [][Next]_vars

\* the Go scheduler runs every goroutine that can take a step
FairSpec == Spec /\ \A t \in Threads : WF_vars(Step(t))

\* ------------------------------------------------------------------------
\* Properties of the lifecycle
\* ------------------------------------------------------------------------
\* the supervisor goroutines launched so far
Launched == {s \in Supers : pc[s] # "unborn"}

\* every caller is between two calls
AllReady == \A c \in Callers : pc[c] = "ready"

\* every supervisor launched so far has returned
NoSupervisor == \A s \in Supers : pc[s] \in {"unborn", "exited"}

\* C1: a start call that finds the state started changes nothing in the
\* lifecycle: the state stays started, no pipeline is constructed and no
\* supervisor is launched; and however start calls race, each period in
\* which the state is started has exactly one start past the state check,
\* one supervisor launched by it and at most one pipeline
C1_StartIdempotent ==
    [][ /\ \A c \in Callers :
             (pc[c] = "start_lock" /\ pc'[c] # "start_lock"
                 /\ state = "started")
             => /\ state' = "started"
                /\ otlp' = otlp
                /\ pipes' = pipes
                /\ nStarts' = nStarts
                /\ \A s \in Supers : pc'[s] = pc[s]
        /\ nStarts' <= nStops' + 1
        /\ Len(pipes') <= nStarts'
        /\ Cardinality({s \in Supers : pc'[s] # "unborn"}) <= nStarts'
        /\ state' = "started"
             => /\ nStarts' = nStops' + 1
                /\ Cardinality({s \in Supers : pc'[s] # "unborn"}) = nStarts'
      ]_vars

\* a second start call has returned at the state check: one pipeline, one
\* supervisor
C1_Witness ==
    /\ noopStart
    /\ AllReady
    /\ state = "started"
    /\ nStarts = 1
    /\ Len(pipes) = 1
    /\ Cardinality(Launched) = 1

\* C2: every pipeline is flushed at most once and released at most once,
\* and a shutdown that finds the state not started returns without a flush,
\* a release or a change of state
C2_FlushReleaseOnce ==
    [][ /\ \A i \in DOMAIN pipes' :
             pipes'[i].flushes <= 1 /\ pipes'[i].releases <= 1
        /\ \A t \in Threads :
             (pc[t] = "sh_enter" /\ pc'[t] # "sh_enter" /\ state # "started")
             => /\ pipes' = pipes
                /\ state' = state
                /\ pc'[t] = Done(t)
      ]_vars

\* a supervisor has shut the pipeline down on a signal or a cancellation,
\* and a Stop made afterwards has sent its token and returned
C2_Witness ==
    /\ state = "stopped"
    /\ AllReady
    /\ NoSupervisor
    /\ interruptChan = 1
    /\ Len(pipes) = 1
    /\ pipes[1].flushes = 1
    /\ pipes[1].releases = 1

\* C3 as stated: once the state is stopped it stays stopped
C3_StoppedAbsorbing == [][state = "stopped" => state' = "stopped"]_vars

\* C3 as amended: the state never returns to idle, and the only step that
\* leaves stopped is the last step of a start call, which sets started
C3_StoppedLeftOnlyByStart ==
    [][ /\ state # "idle" => state' # "idle"
        /\ (state = "stopped" /\ state' # "stopped")
             => /\ state' = "started"
                /\ \E c \in Callers :
                     pc[c] = "start_finish" /\ pc'[c] = "ready"
      ]_vars

\* a start call made after a shutdown has set the state to started again
C3_Witness == state = "started" /\ nStops >= 1

\* C4: every call of Stop returns (stated for the default logger deadLog,
\* whose calls always return)
C4_StopReturns ==
    \A c \in Callers :
        (pc[c] = "stop_send" /\ logger = "deadLog") ~> (pc[c] = "ready")

\* C5: once the state is started, a pending OS signal or the cancellation
\* of the context given to that start leads to the state stopped with the
\* pipeline flushed (stated for the default logger deadLog)
C5_TriggerLeadsToStopped ==
    (/\ state = "started"
     /\ logger = "deadLog"
     /\ (signalChan > 0 \/ ctxOf[NumCallers + nStarts] \in cancelled))
    ~> (/\ state = "stopped"
        /\ otlp # 0 => pipes[otlp].flushes > 0)

\* C6: a shutdown that finds the state started releases only after the
\* flush and sets stopped only after the release (or with a nil handle),
\* always under the write lock, and it always gets to state = stopped
C6_ShutdownOrder ==
    /\ [][ /\ \A t \in Threads :
                (pc[t] = "sh_release" /\ pc'[t] # "sh_release")
                => stateMutex = t /\ pipes[otlp].flushes > pipes[otlp].releases
           /\ (state = "started" /\ state' = "stopped")
                => /\ \E t \in Threads : stateMutex = t /\ pc[t] = "sh_stop"
                   /\ otlp # 0 => /\ pipes[otlp].flushes > 0
                                  /\ pipes[otlp].releases > 0
         ]_vars
    /\ \A t \in Threads :
         (stateMutex = t /\ pc[t] \in {"sh_flush", "sh_release", "sh_stop"})
         ~> (state = "stopped")

\* C7: a recording call whose validateRequest found the state stopped
\* starts no span on the tracer
C7_StoppedShortCircuits ==
    \A t \in Threads : pc[t] = "end_trace" => ~verr[t]

\* C8: after a start has hit a configuration/startup error the lifecycle
\* does not report running and there is no export pipeline
C8_StartupErrorDisables ==
    startupFailed => (~IsRunning /\ otlp = 0)

\* C9: the entry of a start call made while the state is started leaves
\* every field of conf as it was
C9_ConfigReadOnly ==
    [][ \A c \in Callers :
          (pc[c] = "ready" /\ pc'[c] = "start_lock" /\ state = "started")
          => conf' = conf ]_vars

\* ------------------------------------------------------------------------
\* The sampler on its own: every rate map, every identity, every kind
\* ------------------------------------------------------------------------
\* the state after init() and one WithSamplingRateMap option
SamplerInit ==
    /\ \E m \in RateMaps :
         conf = Apply(InitConf, [opt |-> "WithSamplingRateMap", val |-> m])
    /\ InitState
    /\ reqCtx = EmptyCtx
    /\ request = NoRequest

\* sdktrace.WithSampler(getSampler()) in StartOTLP
WithSampler ==
    /\ sampler = <<>>
    /\ sampler' = <<getSampler(conf)>>
    /\ UNCHANGED <<state, conf, logger, otlp, pipes, stateMutex,
                   interruptChan, signalChan, cancelled, pc, ret, ctxOf,
                   verr, nCalls, nStarts, nStops, startupFailed, noopStart,
                   sampled,
                   recVars>>

\* the tracer provider asks the sampler about a span that is starting
Sample(tid, kind) ==
    /\ sampler # <<>>
    /\ sampled' = <<[TraceID |-> tid, Kind |-> kind,
                     Decision |-> ShouldSample(sampler[1],
                                      [TraceID |-> tid, Kind |-> kind])]>>
    /\ UNCHANGED <<state, conf, logger, otlp, pipes, stateMutex,
                   interruptChan, signalChan, cancelled, pc, ret, ctxOf,
                   verr, nCalls, nStarts, nStops, startupFailed, noopStart,
                   sampler,
                   recVars>>

SamplerNext ==
    \/ WithSampler
    \/ \E tid \in TraceIDs, kind \in SpanKinds : Sample(tid, kind)

SamplerSpec == SamplerInit /\ [][SamplerNext]_vars

\* the kind whose rate decides: the kind itself when the map has an entry
\* for it, else the unspecified kind
RateKind(kind) ==
    IF kind \in DOMAIN conf.samplingRateMap THEN kind
    ELSE SpanKindUnspecified

\* the numerator of rate(kind), 0 when the map has no entry to fall back on
RateOf(kind) ==
    IF RateKind(kind) \in DOMAIN conf.samplingRateMap
    THEN conf.samplingRateMap[RateKind(kind)]
    ELSE 0

\* C10 as stated: the decision is record-and-sample iff x < rate * 2^63,
\* the product taken exactly
C10_SampleIffBelowRate ==
    sampled # <<>> =>
        LET x == sampled[1].TraceID[2] \div 2
        IN  (sampled[1].Decision = "RecordAndSample")
                <=> (x * RateDen < RateOf(sampled[1].Kind) * Half)

\* C10 as amended: the bound is rate * 2^63 truncated to an integer, so
\* the decision is record-and-sample iff x + 1 <= rate * 2^63
C10_SampleIffBelowTruncatedBound ==
    sampled # <<>> =>
        LET x == sampled[1].TraceID[2] \div 2
        IN  (sampled[1].Decision = "RecordAndSample")
                <=> ((x + 1) * RateDen <= RateOf(sampled[1].Kind) * Half)

\* a span of a kind without an entry was sampled through the entry of the
\* unspecified kind, whose rate times 2^63 is not an integer
C10_Witness ==
    /\ sampled # <<>>
    /\ sampled[1].Kind \notin DOMAIN conf.samplingRateMap
    /\ SpanKindUnspecified \in DOMAIN conf.samplingRateMap
    /\ sampled[1].Decision = "RecordAndSample"
    /\ (RateOf(sampled[1].Kind) * Half) % RateDen # 0

\* ------------------------------------------------------------------------
\* The sampler as a function of the rate
\* ------------------------------------------------------------------------
\* the rate map m with the entry that decides for kind set to the rate r
WithRate(m, kind, r) ==
    LET k == IF kind \in DOMAIN m THEN kind ELSE SpanKindUnspecified
    IN  [j \in DOMAIN m \cup {k} |-> IF j = k THEN r ELSE m[j]]

\* the decision of the sampler getSampler builds from the rate map m
DecisionUnder(m, tid, kind) ==
    ShouldSample(getSampler([conf EXCEPT !.samplingRateMap = m]),
                 [TraceID |-> tid, Kind |-> kind])

\* C11: an identity sampled for a kind under the rate r1 is sampled under
\* every rate r2 >= r1 of that kind; at rate 1.0 the bound is 2^63 and
\* every identity is sampled, at rate 0.0 the bound is 0 and none is
C11_SamplerMonotonic ==
    sampled # <<>> =>
        LET tid == sampled[1].TraceID
            kind == sampled[1].Kind
            m == conf.samplingRateMap
            r1 == RateOf(kind)
        IN  /\ sampled[1].Decision = "RecordAndSample"
                => \A r2 \in Rates :
                     r1 <= r2 => DecisionUnder(WithRate(m, kind, r2), tid, kind)
                                     = "RecordAndSample"
            /\ sampled[1].Decision = "Drop"
                => \A r0 \in Rates :
                     r0 <= r1 => DecisionUnder(WithRate(m, kind, r0), tid, kind)
                                     = "Drop"
            /\ DecisionUnder(WithRate(m, kind, RateDen), tid, kind)
                   = "RecordAndSample"
            /\ getSampler([conf EXCEPT !.samplingRateMap =
                               WithRate(m, kind, RateDen)])
                   .traceIDUpperBounds[RateKind(kind)] = Half
            /\ DecisionUnder(WithRate(m, kind, 0), tid, kind) = "Drop"
            /\ r1 = RateDen => sampled[1].Decision = "RecordAndSample"
            /\ (r1 = 0 /\ RateKind(kind) \in DOMAIN m)
                   => /\ sampler[1].traceIDUpperBounds[RateKind(kind)] = 0
                      /\ sampled[1].Decision = "Drop"

\* the identity with the largest x was asked about under the rate 1.0 of
\* its kind and sampled
C11_Witness ==
    /\ sampled # <<>>
    /\ sampled[1].Kind \in DOMAIN conf.samplingRateMap
    /\ conf.samplingRateMap[sampled[1].Kind] = RateDen
    /\ sampled[1].TraceID[2] \div 2 = Half - 1
    /\ sampled[1].Decision = "RecordAndSample"

\* ------------------------------------------------------------------------
\* The configuration after init(): the sampler and the metric wrappers
\* ------------------------------------------------------------------------
\* GetMetricSamplingRate
GetMetricSamplingRate == conf.metricSamplingRate

\* math.Min
Min(a, b) == IF a <= b THEN a ELSE b

\* the values of rand.Float64(), which lies in [0, 1), as numerators
Floats == 0..(RateDen - 1)

\* shouldRecordMetric: rnd is the value drawn from rand.Float64()
shouldRecordMetric(rnd, rate) == rnd <= Min(rate, GetMetricSamplingRate)

\* metric.Histogram / Timing / Increment: the pre-filter, then RecordMetric
Histogram(c, rate, rnd) ==
    /\ pc[c] = "ready"
    /\ nCalls < MaxCalls
    /\ nCalls' = nCalls + 1
    /\ metric' = <<[rate |-> rate, rnd |-> rnd,
                    recorded |-> shouldRecordMetric(rnd, rate)]>>
    /\ IF shouldRecordMetric(rnd, rate)
       THEN /\ pc' = [pc EXCEPT ![c] = "validate"]
            /\ ret' = [ret EXCEPT ![c] = "ready"]
       ELSE UNCHANGED <<pc, ret>>
    /\ UNCHANGED <<state, conf, logger, otlp, pipes, stateMutex,
                   interruptChan, signalChan, cancelled, ctxOf, verr, nStarts,
                   nStops, startupFailed, noopStart, sampler, sampled,
                   reqCtx, requestID, span, parseVars>>

\* the sampler is built from conf as init() left it, spans of every kind
\* start and the metric wrappers are called
DefaultsNext ==
    \/ WithSampler
    \/ \E tid \in TraceIDs, kind \in SpanKinds : Sample(tid, kind)
    \/ \E c \in Callers, rate \in Rates, rnd \in Floats :
           Histogram(c, rate, rnd)
    \/ \E c \in Callers : validateRequest(c)
    \/ \E c \in Callers : StartTraceWithTimestamp(c)
    \/ \E c \in Callers : EndTrace(c)

DefaultsSpec == Init /\ [][DefaultsNext]_vars

\* C12: with no sampling option given, the sampler built from conf has
\* the entry 1.0 for the unspecified kind and samples a span of every
\* kind, and a metric recorded with the rate 1.0 under the metric sampling
\* rate 1.0 is not filtered out
C12_DefaultsAfterInit ==
    /\ sampler # <<>>
         => /\ SpanKindUnspecified \in DOMAIN conf.samplingRateMap
            /\ conf.samplingRateMap[SpanKindUnspecified] = RateDen
    /\ sampled # <<>> => sampled[1].Decision = "RecordAndSample"
    /\ metric # <<>>
         => /\ GetMetricSamplingRate = RateDen
            /\ metric[1].rate = RateDen => metric[1].recorded

\* ------------------------------------------------------------------------
\* Recording calls under contexts that carry a requestId
\* ------------------------------------------------------------------------
\* the state after init(); the host gives its recording calls one of the
\* contexts of ReqCtxs
BindInit ==
    /\ conf = InitConf
    /\ InitState
    /\ reqCtx \in ReqCtxs
    /\ request = NoRequest

\* Start and the recording calls made by the host, an OS signal, and the
\* steps of the goroutines
BindNext ==
    \/ \E c \in Callers : StartWithContext(c, "background", <<>>)
    \/ \E c \in Callers : Record(c)
    \/ Signal
    \/ \E t \in Threads :
           \/ StartLock(t)
           \/ StartOTLPScheme(t)
           \/ StartOTLPBuild(t)
           \/ StartFinish(t)
           \/ SupervisorSignal(t)
           \/ shutdown(t)
           \/ ForceFlush(t)
           \/ Release(t)
           \/ SetStopped(t)
           \/ validateRequest(t)
           \/ StartTraceWithTimestamp(t)
           \/ EndTrace(t)

BindSpec == BindInit /\ [][BindNext]_vars

\* the bytes of data on the right of an identity, zeros on the left
ZeroExtended(data) ==
    [i \in 1..IDLen |->
        IF i <= IDLen - Len(data) THEN 0 ELSE data[i - (IDLen - Len(data))]]

\* the requestId req is valid base64 and decodes to at most IDLen bytes,
\* not all zero
Derivable(req) ==
    /\ req # <<>>
    /\ ~DecodeString(req).err
    /\ Len(DecodeString(req).data) <= IDLen
    /\ \E i \in DOMAIN DecodeString(req).data : DecodeString(req).data[i] # 0

\* C13: when the context carries a requestId that decodes to at most
\* IDLen bytes, not all zero, every span started under it has those bytes,
\* zero-extended on the left, as its trace identity, whatever identity the
\* context already carries
C13_RequestIdGivesTraceId ==
    \A t \in Callers :
        (span[t] # <<>> /\ Derivable(reqCtx.requestID))
        => /\ ~span[t][1].generated
           /\ span[t][1].TraceID
                  = ZeroExtended(DecodeString(reqCtx.requestID).data)

\* C14: when the requestId of the context is not valid base64, the span
\* has the identity it would have without a requestId: that of the parent
\* when the context carries one, else a generated one
C14_InvalidBase64Ignored ==
    \A t \in Callers :
        (/\ span[t] # <<>>
         /\ reqCtx.requestID # <<>>
         /\ DecodeString(reqCtx.requestID).err)
        => span[t][1] = tracerStart(reqCtx.parent)

\* ------------------------------------------------------------------------
\* The parsers of the correlation header on every header value
\* ------------------------------------------------------------------------
\* the state after init() and a request with any header and context
ParseInit ==
    /\ conf = InitConf
    /\ InitState
    /\ reqCtx = EmptyCtx
    /\ request \in Requests

\* a middleware calls ExtractIdsFromRequest on the header of the request
Extract ==
    /\ extracted = <<>>
    /\ extracted' = <<ExtractIdsFromRequest(request.header)>>
    /\ UNCHANGED <<state, conf, logger, otlp, pipes, stateMutex,
                   interruptChan, signalChan, cancelled, pc, ret, ctxOf,
                   verr, nCalls, nStarts, nStops, startupFailed, noopStart,
                   sampler, sampled, metric, reqCtx, requestID, span,
                   request, intercepted>>

\* a middleware calls InterceptRequestWithContext on the request
Intercept ==
    /\ intercepted = <<>>
    /\ intercepted' =
           <<InterceptRequestWithContext(request.ctx, request.header)>>
    /\ UNCHANGED <<state, conf, logger, otlp, pipes, stateMutex,
                   interruptChan, signalChan, cancelled, pc, ret, ctxOf,
                   verr, nCalls, nStarts, nStops, startupFailed, noopStart,
                   sampler, sampled, metric, reqCtx, requestID, span,
                   request, extracted>>

ParseNext == Extract \/ Intercept

ParseSpec == ParseInit /\ [][ParseNext]_vars

\* the separators of the header of the request, and the first two of them
\* (the end of the header standing in for a missing second one)
Seps == Slashes(request.header)
Sep1 == CHOOSE i \in Seps : \A k \in Seps : i <= k
Sep2 ==
    IF Seps = {Sep1} THEN Len(request.header) + 1
    ELSE CHOOSE i \in Seps \ {Sep1} : \A k \in Seps \ {Sep1} : i <= k

\* the characters of the header before its first separator, and those
\* between the first and the second
Segment0 == [i \in 1..(Sep1 - 1) |-> request.header[i]]
Segment1 == [i \in 1..(Sep2 - Sep1 - 1) |-> request.header[Sep1 + i]]

\* C15: a header with a separator has two or more segments: both parsers
\* return segment 0 as the session id and segment 1 as the request id,
\* unchanged, whatever follows; a header without a separator (the empty
\* one included) makes ExtractIdsFromRequest fail with both ids empty and
\* InterceptRequestWithContext return the context it was given
C15_ParseSplitsOnSlash ==
    /\ extracted # <<>> =>
         IF Seps # {}
         THEN extracted[1] = [sessionSecureId |-> Segment0,
                              requestId |-> Segment1, err |-> FALSE]
         ELSE extracted[1] = [sessionSecureId |-> <<>>,
                              requestId |-> <<>>, err |-> TRUE]
    /\ intercepted # <<>> =>
         IF Seps # {}
         THEN intercepted[1] = [SessionSecureID |-> <<Segment0>>,
                                RequestID |-> <<Segment1>>]
         ELSE intercepted[1] = request.ctx
    /\ (extracted # <<>> /\ intercepted # <<>>) =>
         (extracted[1].err <=> intercepted[1] = request.ctx)
            \/ (/\ ~extracted[1].err
                /\ request.ctx = [SessionSecureID |-> <<Segment0>>,
                                  RequestID |-> <<Segment1>>])

\* both parsers have run on a header of three segments under a context
\* that carried other ids
C15_Witness ==
    /\ extracted # <<>>
    /\ intercepted # <<>>
    /\ Cardinality(Seps) = 2
    /\ request.ctx # PlainCtx
    /\ ~extracted[1].err
    /\ extracted[1].requestId # <<>>
    /\ intercepted[1] # request.ctx

\* ------------------------------------------------------------------------
\* Properties of the locking
\* ------------------------------------------------------------------------
\* C16: once the host has begun to call Start, Stop and the recording
\* calls, every step that writes state or conf is taken by the goroutine
\* that holds the write lock, and conf is not written while a goroutine is
\* between its validateRequest and its read of conf.projectID
C16_AccessUnderLock ==
    [][ /\ (nCalls' > 0 /\ (state' # state \/ conf' # conf))
             => /\ stateMutex # 0
                /\ pc'[stateMutex] # pc[stateMutex]
        /\ (\E t \in Threads : pc[t] = "tracer_start") => conf' = conf
      ]_vars

\* the supervisor goroutines that have been launched and have not returned
Alive == {s \in Supers : pc[s] \notin {"unborn", "exited"}}

\* the supervisor launched by the latest start
Current == NumCallers + nStarts

\* the callers inside the shutdown of a Stop, their token sent
Stopping ==
    {c \in Callers : pc[c] \in {"sh_enter", "sh_flush", "sh_release", "sh_stop"}}

\* C17: at most one supervisor is alive; only the supervisor of the latest
\* start shuts the pipeline down; and while the state is started that
\* supervisor returns on a stop token only when a Stop is under way, never
\* on the token of a Stop that returned before its start
C17_OneSupervisorOwnPipeline ==
    [][ /\ Cardinality({s \in Supers : pc'[s] \notin {"unborn", "exited"}}) <= 1
        /\ \A s \in Supers :
             (pc'[s] \in {"sh_flush", "sh_release", "sh_stop"})
             => s = NumCallers + nStarts'
        /\ \A s \in Supers :
             (/\ pc[s] = "select"
              /\ pc'[s] = "exited"
              /\ s = Current
              /\ state = "started")
             => Stopping # {}
      ]_vars

\* C18: a recording call whose validateRequest found the state not stopped
\* neither starts its span on nor ends it into a pipeline that has been
\* released
C18_NoSpanAfterRelease ==
    [][ \A t \in Threads :
          (/\ pc[t] \in {"tracer_start", "end_trace"}
           /\ pc'[t] # pc[t]
           /\ ~verr[t]
           /\ otlp # 0)
          => pipes[otlp].releases = 0
      ]_vars

\* C19: a goroutine that logs while it holds the write lock is never left
\* waiting for the read lock of validateRequest, whichever logger is set
C19_LogUnderLockReturns ==
    \A t \in Threads : ~(stateMutex = t /\ pc[t] = "validate")

====
